---------------------------- MODULE Spec2Model ----------------------------
(***************************************************************************)
(* PhysioPulse telerehabilitation backend: the scoring and orchestration   *)
(* pipeline (VideoAnalyzer.run_pipeline, PoseDetector, PoseScorer, utils). *)
(*                                                                         *)
(* Numbers.  Coordinates are tenths of the normalised image plane (0.3 is  *)
(* 3).  A float is a record [nan, md]: nan is TRUE for IEEE NaN, md is the *)
(* value in thousandths (millidegrees for an angle).  Timestamps are       *)
(* hundredths of a second.  Averages and rates are reduced fractions.      *)
(***************************************************************************)
EXTENDS Integers, Sequences, FiniteSets, TLC

VARIABLES
    pc,             \* position of the run_pipeline invocation
    video,          \* the input video (exists, opens, fps, frame_count, frames)
    exercise_type,  \* the exercise_type argument
    analysis_id,    \* the uuid generated at entry
    fs,             \* the output directory: path -> file
    results_data,   \* landmark frames recorded by extraction
    scores,         \* frame scores built by scoring
    summary,        \* the summary built by _generate_analysis_summary
    result,         \* the dictionary returned to the caller
    exc,            \* the exception caught by run_pipeline's except clause
    error,          \* the exception surfaced to the caller
    frame_faults,   \* positions of the frames whose _score_frame logged an exception
    summary_fault,  \* whether _generate_analysis_summary logged an exception
    rm_failed,      \* the paths cleanup_temp_files logged as not removed
    pose_closed,    \* whether the detector's engine (self.pose) has been closed
    used_ids,       \* the identifiers uuid4 has returned so far
    other,          \* the local state of a second, suspended invocation
    arg,            \* argument tuple of a directly called function
    ret,            \* what that call returned
    analysis_results,   \* api.py's in-memory store: analysis id -> entry
    uploads,        \* the upload directory: file name -> state of the file
    http            \* the request the API is handling or has last answered

vars == <<pc, video, exercise_type, analysis_id, fs, results_data, scores,
          summary, result, exc, error, frame_faults, summary_fault, rm_failed,
          pose_closed, used_ids, other, arg, ret, analysis_results, uploads, http>>

-----------------------------------------------------------------------------
(* Bounds of the model.                                                    *)

\* decoded frames of an input video: 0 .. MaxFrames
MaxFrames == 10

\* frames of a landmarks file handed directly to the scorer: 1 .. MaxFileFrames
MaxFileFrames == 2

-----------------------------------------------------------------------------
(* Settings (config.py).                                                   *)

FRAME_SKIP == 5
PERFECT_SCORE == 100
GOOD_SCORE == 75
NEEDS_IMPROVEMENT_SCORE == 50

EXERCISE_CONFIGS ==
    [arm_extension |->
        [name |-> "Arm Extension Exercise",
         perfect_angle_range |-> <<150, 180>>,
         good_angle_range |-> <<120, 149>>,
         feedback_messages |->
            [perfect |-> "Perfect arm extension!",
             good |-> "Almost there, extend a bit more",
             needs_improvement |-> "Bend your arm more for proper form"]],
     squat |->
        [name |-> "Squat Exercise",
         perfect_angle_range |-> <<90, 120>>,
         good_angle_range |-> <<70, 89>>,
         feedback_messages |->
            [perfect |-> "Perfect squat depth!",
             good |-> "Go a bit deeper for better form",
             needs_improvement |-> "Squat deeper for proper form"]],
     shoulder_press |->
        [name |-> "Shoulder Press Exercise",
         perfect_angle_range |-> <<160, 180>>,
         good_angle_range |-> <<140, 159>>,
         feedback_messages |->
            [perfect |-> "Perfect shoulder press!",
             good |-> "Almost fully extended",
             needs_improvement |-> "Extend your arms more"]]]

\* the joint name -> landmark index table of _extract_joint_positions
joint_mapping ==
    [left_shoulder |-> 11, right_shoulder |-> 12,
     left_elbow |-> 13, right_elbow |-> 14,
     left_wrist |-> 15, right_wrist |-> 16,
     left_hip |-> 23, right_hip |-> 24,
     left_knee |-> 25, right_knee |-> 26,
     left_ankle |-> 27, right_ankle |-> 28]

-----------------------------------------------------------------------------
(* Floats.                                                                 *)

Num(md) == [nan |-> FALSE, md |-> md]
NaN == [nan |-> TRUE, md |-> 0]

\* a <= x <= b of Python on floats: every comparison with NaN is False
Between(lo, x, hi) == (~x.nan) /\ lo * 1000 <= x.md /\ x.md <= hi * 1000

\* round(x, 2): to the nearest hundredth, ties to even; round(nan, 2) is nan
Round2(x) ==
    IF x.nan THEN NaN
    ELSE LET q == x.md \div 10
             r == x.md % 10
             up == r > 5 \/ (r = 5 /\ q % 2 = 1)
         IN  Num(10 * (IF up THEN q + 1 ELSE q))

-----------------------------------------------------------------------------
(* Angle geometry: PoseScorer._calculate_angle.                            *)

\* a point whose coordinates are not numbers (a JSON null): arithmetic on it raises
NonNumeric == <<>>

\* np.degrees(np.arccos(cosine)) for the cosine sign * sqrt(d2 / nn), in
\* millidegrees, for every cosine two vectors with components in -2..2 form
ArccosDegrees(sign, d2, nn) ==
    CASE d2 = 0 -> 90000
      [] d2 = nn -> IF sign > 0 THEN 0 ELSE 180000
      [] 10 * d2 = 9 * nn -> IF sign > 0 THEN 18435 ELSE 161565
      [] 5 * d2 = 4 * nn -> IF sign > 0 THEN 26565 ELSE 153435
      [] 25 * d2 = 16 * nn -> IF sign > 0 THEN 36870 ELSE 143130
      [] 2 * d2 = nn -> IF sign > 0 THEN 45000 ELSE 135000
      [] 25 * d2 = 9 * nn -> IF sign > 0 THEN 53130 ELSE 126870
      [] 5 * d2 = nn -> IF sign > 0 THEN 63435 ELSE 116565
      [] 10 * d2 = nn -> IF sign > 0 THEN 71565 ELSE 108435

\* the try body, lines 298-315: [raised, value]
angle_body(a, b, c) ==
    IF a = NonNumeric \/ b = NonNumeric \/ c = NonNumeric
    THEN [raised |-> TRUE, value |-> NaN]                \* TypeError in a - b
    ELSE LET ba == <<a[1] - b[1], a[2] - b[2]>>
             bc == <<c[1] - b[1], c[2] - b[2]>>
             dot == ba[1] * bc[1] + ba[2] * bc[2]
             nn == (ba[1] * ba[1] + ba[2] * ba[2]) * (bc[1] * bc[1] + bc[2] * bc[2])
             sign == IF dot > 0 THEN 1 ELSE IF dot < 0 THEN -1 ELSE 0
         IN  IF nn = 0
             \* 0.0 / 0.0 on numpy scalars is nan (a RuntimeWarning, no exception);
             \* np.clip, np.arccos and np.degrees carry the nan through
             THEN [raised |-> FALSE, value |-> NaN]
             \* |cosine| <= 1 here, np.clip leaves it
             ELSE [raised |-> FALSE, value |-> Num(ArccosDegrees(sign, dot * dot, nn))]

\* a faulty variant: the zero-length case handled by returning the fallback
calculate_angle_guarded(a, b, c) ==
    LET r == angle_body(a, b, c)
    IN  IF r.raised \/ r.value.nan THEN Num(0) ELSE r.value

calculate_angle(a, b, c) ==
    LET r == angle_body(a, b, c)
    IN  IF r.raised THEN Num(0) ELSE r.value             \* except Exception: return 0.0

-----------------------------------------------------------------------------
(* Joint scorer: PoseScorer._calculate_joint_score.                        *)

\* a faulty variant: the range tests made strict
calculate_joint_score_strict(angle, exercise_config) ==
    LET perfect_range == exercise_config.perfect_angle_range
        good_range == exercise_config.good_angle_range
        tier == IF (~angle.nan) /\ perfect_range[1] * 1000 < angle.md
                   /\ angle.md < perfect_range[2] * 1000 THEN "perfect"
                ELSE IF (~angle.nan) /\ good_range[1] * 1000 < angle.md
                        /\ angle.md < good_range[2] * 1000 THEN "good"
                ELSE "needs_improvement"
    IN  [angle |-> Round2(angle),
         score |-> CASE tier = "perfect" -> PERFECT_SCORE
                     [] tier = "good" -> GOOD_SCORE
                     [] OTHER -> NEEDS_IMPROVEMENT_SCORE,
         feedback |-> exercise_config.feedback_messages[tier],
         confidence |-> 1]

calculate_joint_score(angle, exercise_config) ==
    LET perfect_range == exercise_config.perfect_angle_range
        good_range == exercise_config.good_angle_range
        tier == IF Between(perfect_range[1], angle, perfect_range[2]) THEN "perfect"
                ELSE IF Between(good_range[1], angle, good_range[2]) THEN "good"
                ELSE "needs_improvement"
    IN  [angle |-> Round2(angle),
         score |-> CASE tier = "perfect" -> PERFECT_SCORE
                     [] tier = "good" -> GOOD_SCORE
                     [] OTHER -> NEEDS_IMPROVEMENT_SCORE,
         feedback |-> exercise_config.feedback_messages[tier],
         confidence |-> 1]

-----------------------------------------------------------------------------
(* Landmark frames: what the engine returns and what the detector records.  *)

Poses == {"extended", "bent"}

\* the engine's (x, y) of landmark idx in a pose.  "extended" is the fixture of
\* test_end_to_end_pipeline (both arms straight, every other point at (0.5, 0.5));
\* "bent" has one joint of each exercise in every tier.
PoseCoord(pose, idx) ==
    IF pose = "extended"
    THEN CASE idx = 11 -> <<3, 5>> [] idx = 13 -> <<4, 6>> [] idx = 15 -> <<5, 7>>
           [] idx = 12 -> <<7, 5>> [] idx = 14 -> <<6, 6>> [] idx = 16 -> <<5, 7>>
           [] OTHER -> <<5, 5>>
    ELSE CASE idx = 11 -> <<3, 5>> [] idx = 13 -> <<4, 5>> [] idx = 15 -> <<5, 6>>
           [] idx = 12 -> <<7, 5>> [] idx = 14 -> <<6, 5>> [] idx = 16 -> <<6, 6>>
           [] idx = 23 -> <<4, 5>> [] idx = 25 -> <<4, 6>> [] idx = 27 -> <<5, 6>>
           [] idx = 24 -> <<6, 5>> [] idx = 26 -> <<6, 6>> [] idx = 28 -> <<6, 7>>
           [] OTHER -> <<5, 5>>

\* results.pose_landmarks.landmark of a frame: n points
EngineLandmarks(n, pose) == [i \in 1..n |-> PoseCoord(pose, i - 1)]

\* PoseDetector._extract_frame_landmarks (name, z and visibility are carried along
\* and read by nothing downstream; they are left out)
extract_frame_landmarks(frame_id, timestamp_sec, lm) ==
    [frame |-> frame_id,
     timestamp_sec |-> timestamp_sec,
     landmarks |-> [i \in 1..Len(lm) |-> [id |-> i - 1, x |-> lm[i][1], y |-> lm[i][2]]]]

\* round(frame_id / fps, 2) in hundredths of a second (fps > 0)
Timestamp(frame_id, fps) ==
    LET q == (frame_id * 100) \div fps
        r == (frame_id * 100) % fps
        up == 2 * r > fps \/ (2 * r = fps /\ q % 2 = 1)
    IN  IF up THEN q + 1 ELSE q

\* a faulty variant: the frame-skip test dropped, every decoded frame is sent to the engine
sampled_every(frame_id) == TRUE

\* line 119: frames with frame_id % FRAME_SKIP != 0 are skipped
sampled(frame_id) == frame_id % FRAME_SKIP = 0

\* the while loop of extract_pose_landmarks, lines 111-153, over the first k
\* decoded frames: the list results_data
RECURSIVE frame_loop(_, _)
frame_loop(v, k) ==
    IF k = 0 THEN <<>>
    ELSE LET before == frame_loop(v, k - 1)
             o == v.frames[k]
         IN  IF ~sampled(k) THEN before
             ELSE IF o.kind = "pose" /\ o.n > 0
                  THEN Append(before,
                              extract_frame_landmarks(k, Timestamp(k, v.fps),
                                                      EngineLandmarks(o.n, o.pose)))
                  ELSE before        \* no pose, an empty list, or the engine raised

-----------------------------------------------------------------------------
(* Files.                                                                  *)

Absent == [exists |-> FALSE, complete |-> FALSE, data |-> <<>>]
Written(data) == [exists |-> TRUE, complete |-> TRUE, data |-> data]
Truncated == [exists |-> TRUE, complete |-> FALSE, data |-> <<>>]

WriteFaults == {"ok", "open_fails", "dump_fails"}

\* exceptions: the type and what str(e) says at the place that raised it
Raised(type, msg) == [type |-> type, msg |-> msg]
NoExc == Raised("", "")

\* a faulty variant: the except clause logs the failure and does not re-raise
save_json_file_silent(data, old, wf) ==
    CASE wf = "ok" -> [raised |-> FALSE, file |-> Written(data)]
      [] wf = "open_fails" -> [raised |-> FALSE, file |-> old]
      [] wf = "dump_fails" -> [raised |-> FALSE, file |-> Truncated]

\* utils.save_json_file: [raised, file].  open(path, 'w') creates or truncates the
\* file before json.dump writes it; either can fail, and the failure is re-raised
save_json_file(data, old, wf) ==
    CASE wf = "ok" -> [raised |-> FALSE, file |-> Written(data)]
      [] wf = "open_fails" -> [raised |-> TRUE, file |-> old]
      [] wf = "dump_fails" -> [raised |-> TRUE, file |-> Truncated]

\* open(path) and json.load(f): raises when the file is missing, cannot be read
\* (rf) or does not hold a complete JSON document
read_raises(file, rf) == rf \/ ~file.exists \/ ~file.complete

-----------------------------------------------------------------------------
(* Extraction: PoseDetector.extract_pose_landmarks.                        *)

\* a faulty variant: the landmarks are saved whether or not a frame was recorded
extract_pose_landmarks_save_empty(v, old, wf) ==
    IF ~v.exists
    THEN [raised |-> Raised("FileNotFoundError", "Video file not found"),
          results_data |-> <<>>, file |-> old]
    ELSE IF ~v.opens
    THEN [raised |-> Raised("ValueError", "Failed to open video file"),
          results_data |-> <<>>, file |-> old]
    ELSE IF v.fps = 0 /\ \E k \in 1..Len(v.frames) : sampled(k)
    THEN [raised |-> Raised("RuntimeError", "float division by zero"),
          results_data |-> <<>>, file |-> old]
    ELSE LET data == frame_loop(v, Len(v.frames))
             w == save_json_file(data, old, wf)
         IN  IF w.raised
             THEN [raised |-> Raised("RuntimeError", "Failed to save landmarks"),
                   results_data |-> data, file |-> w.file]
             ELSE [raised |-> NoExc, results_data |-> data, file |-> w.file]

\* [raised, results_data, file]: raised is NoExc on return
extract_pose_landmarks(v, old, wf) ==
    IF ~v.exists
    THEN [raised |-> Raised("FileNotFoundError", "Video file not found"),
          results_data |-> <<>>, file |-> old]
    ELSE IF ~v.opens
    THEN [raised |-> Raised("ValueError", "Failed to open video file"),
          results_data |-> <<>>, file |-> old]
    \* inside try: every exception leaves as RuntimeError("Pose detection failed: ...")
    ELSE IF v.fps = 0 /\ \E k \in 1..Len(v.frames) : sampled(k)
    \* line 122, frame_id / fps: ZeroDivisionError at the first sampled frame
    THEN [raised |-> Raised("RuntimeError", "float division by zero"),
          results_data |-> <<>>, file |-> old]
    ELSE LET data == frame_loop(v, Len(v.frames))
             w == save_json_file(data, old, wf)
         IN  IF data = <<>>
             THEN [raised |-> Raised("RuntimeError", "No pose landmarks detected in video"),
                   results_data |-> data, file |-> old]
             ELSE IF w.raised
             THEN [raised |-> Raised("RuntimeError", "Failed to save landmarks"),
                   results_data |-> data, file |-> w.file]
             \* line 159: processed_frames / (total_frames // FRAME_SKIP)
             ELSE IF v.frame_count \div FRAME_SKIP = 0
             THEN [raised |-> Raised("RuntimeError", "division by zero"),
                   results_data |-> data, file |-> w.file]
             ELSE [raised |-> NoExc, results_data |-> data, file |-> w.file]

-----------------------------------------------------------------------------
(* Frame scorer: PoseScorer._extract_joint_positions, _score_* and          *)
(* _score_frame.                                                           *)

\* a faulty variant: the bounds test admits one index too many, so a joint whose last
\* landmark is missing is still looked up (and takes the list's last entry)
extract_joint_positions_off_by_one(landmarks) ==
    [j \in {k \in DOMAIN joint_mapping : joint_mapping[k] <= Len(landmarks)
                                          /\ Len(landmarks) > 0} |->
        LET i == IF joint_mapping[j] < Len(landmarks) THEN joint_mapping[j] + 1
                 ELSE Len(landmarks)
        IN  <<landmarks[i].x, landmarks[i].y>>]

\* joint name -> (x, y), for the joints whose index lies inside the list; the
\* entry is taken by its position in the list, its "id" field is not read
extract_joint_positions(landmarks) ==
    [j \in {k \in DOMAIN joint_mapping : joint_mapping[k] < Len(landmarks)} |->
        <<landmarks[joint_mapping[j] + 1].x, landmarks[joint_mapping[j] + 1].y>>]

\* all(joint in joint_positions for joint in [a, b, c])
all_in(joint_positions, t) == \A i \in 1..3 : t[i] \in DOMAIN joint_positions

\* the angle at t[2] scored against the exercise's ranges
triple_score(joint_positions, exercise_config, t) ==
    calculate_joint_score(
        calculate_angle(joint_positions[t[1]], joint_positions[t[2]],
                        joint_positions[t[3]]),
        exercise_config)

\* a faulty variant: the angle of the arm taken at the shoulder instead of the elbow
ArmTriples_vertex_at_shoulder ==
    [left_arm |-> <<"left_elbow", "left_shoulder", "left_wrist">>,
     right_arm |-> <<"right_elbow", "right_shoulder", "right_wrist">>]

\* the two triples an exercise scores, by the name of the joint they fill in
ArmTriples ==
    [left_arm |-> <<"left_shoulder", "left_elbow", "left_wrist">>,
     right_arm |-> <<"right_shoulder", "right_elbow", "right_wrist">>]
SquatTriples ==
    [left_knee |-> <<"left_hip", "left_knee", "left_ankle">>,
     right_knee |-> <<"right_hip", "right_knee", "right_ankle">>]
ShoulderTriples ==
    [left_shoulder |-> <<"left_hip", "left_shoulder", "left_elbow">>,
     right_shoulder |-> <<"right_hip", "right_shoulder", "right_elbow">>]

score_arm_extension(joint_positions, exercise_config) ==
    [k \in {j \in DOMAIN ArmTriples : all_in(joint_positions, ArmTriples[j])} |->
        triple_score(joint_positions, exercise_config, ArmTriples[k])]

score_squat(joint_positions, exercise_config) ==
    [k \in {j \in DOMAIN SquatTriples : all_in(joint_positions, SquatTriples[j])} |->
        triple_score(joint_positions, exercise_config, SquatTriples[k])]

score_shoulder_press(joint_positions, exercise_config) ==
    [k \in {j \in DOMAIN ShoulderTriples :
                all_in(joint_positions, ShoulderTriples[j])} |->
        triple_score(joint_positions, exercise_config, ShoulderTriples[k])]

\* the joint scores _score_frame merges into the frame's dictionary
frame_joints(frame_data, exercise_config) ==
    LET joint_positions == extract_joint_positions(frame_data.landmarks)
    IN  CASE exercise_config.name = "Arm Extension Exercise" ->
                score_arm_extension(joint_positions, exercise_config)
          [] exercise_config.name = "Squat Exercise" ->
                score_squat(joint_positions, exercise_config)
          [] exercise_config.name = "Shoulder Press Exercise" ->
                score_shoulder_press(joint_positions, exercise_config)
          [] OTHER -> score_arm_extension(joint_positions, exercise_config)

\* a faulty variant: a frame in which no joint was scored yields None
score_frame_none_when_empty(frame_data, exercise_config, raises) ==
    IF raises \/ DOMAIN frame_joints(frame_data, exercise_config) = {} THEN <<>>
    ELSE <<[frame |-> frame_data.frame,
            timestamp_sec |-> frame_data.timestamp_sec,
            joints |-> frame_joints(frame_data, exercise_config)]>>

\* _score_frame: <<>> for None, else <<the frame's dictionary>>.  The dictionary's
\* joint keys are the domain of joints.  raises: an exception inside the try body
score_frame(frame_data, exercise_config, raises) ==
    IF raises THEN <<>>
    ELSE <<[frame |-> frame_data.frame,
            timestamp_sec |-> frame_data.timestamp_sec,
            joints |-> frame_joints(frame_data, exercise_config)]>>

\* a faulty variant: each new frame score is put in front of the earlier ones
RECURSIVE score_loop_newest_first(_, _, _, _)
score_loop_newest_first(frames_data, exercise_config, bad, k) ==
    IF k = 0 THEN <<>>
    ELSE score_frame(frames_data[k], exercise_config, k \in bad)
         \o score_loop_newest_first(frames_data, exercise_config, bad, k - 1)

\* the loop of score_from_landmarks, lines 62-66, over the first k frames; bad is
\* the set of positions whose _score_frame raises.  `if frame_score:` is the
\* truth value of a dictionary that always holds "frame": only None is dropped
RECURSIVE score_loop(_, _, _, _)
score_loop(frames_data, exercise_config, bad, k) ==
    IF k = 0 THEN <<>>
    ELSE score_loop(frames_data, exercise_config, bad, k - 1)
         \o score_frame(frames_data[k], exercise_config, k \in bad)

-----------------------------------------------------------------------------
(* PoseScorer.score_from_landmarks.                                        *)

\* a faulty variant: the configuration lookup falls back to arm extension
score_from_landmarks_default_config(lmfile, ex, rf, bad, old, wf) ==
    IF read_raises(lmfile, rf)
    THEN [raised |-> Raised("RuntimeError", "cannot read landmarks"),
          scores |-> <<>>, file |-> old]
    ELSE IF lmfile.data = <<>>
    THEN [raised |-> Raised("RuntimeError", "No landmarks data found"),
          scores |-> <<>>, file |-> old]
    ELSE LET cfg == IF ex \in DOMAIN EXERCISE_CONFIGS THEN EXERCISE_CONFIGS[ex]
                    ELSE EXERCISE_CONFIGS["arm_extension"]
             sc == score_loop(lmfile.data, cfg, bad, Len(lmfile.data))
             w == save_json_file(sc, old, wf)
         IN  IF sc = <<>>
             THEN [raised |-> Raised("RuntimeError", "No valid scores generated"),
                   scores |-> sc, file |-> old]
             ELSE IF w.raised
             THEN [raised |-> Raised("RuntimeError", "Failed to save analysis results"),
                   scores |-> sc, file |-> w.file]
             ELSE [raised |-> NoExc, scores |-> sc, file |-> w.file]

\* [raised, scores, file]; every exception leaves as RuntimeError("Pose scoring
\* failed: ...")
score_from_landmarks(lmfile, ex, rf, bad, old, wf) ==
    IF read_raises(lmfile, rf)
    THEN [raised |-> Raised("RuntimeError", "cannot read landmarks"),
          scores |-> <<>>, file |-> old]
    ELSE IF lmfile.data = <<>>
    THEN [raised |-> Raised("RuntimeError", "No landmarks data found"),
          scores |-> <<>>, file |-> old]
    ELSE IF ex \notin DOMAIN EXERCISE_CONFIGS
    THEN [raised |-> Raised("RuntimeError", "Unsupported exercise type"),
          scores |-> <<>>, file |-> old]
    ELSE LET sc == score_loop(lmfile.data, EXERCISE_CONFIGS[ex], bad, Len(lmfile.data))
             w == save_json_file(sc, old, wf)
         IN  IF sc = <<>>
             THEN [raised |-> Raised("RuntimeError", "No valid scores generated"),
                   scores |-> sc, file |-> old]
             ELSE IF w.raised
             THEN [raised |-> Raised("RuntimeError", "Failed to save analysis results"),
                   scores |-> sc, file |-> w.file]
             ELSE [raised |-> NoExc, scores |-> sc, file |-> w.file]

-----------------------------------------------------------------------------
(* Summary aggregator: VideoAnalyzer._generate_analysis_summary.           *)

RECURSIVE GCD(_, _)
GCD(a, b) == IF b = 0 THEN a ELSE GCD(b, a % b)

\* the float n / d as a reduced fraction (d > 0); 0.0 is <<0, 1>>
Frac(n, d) == <<n \div GCD(n, d), d \div GCD(n, d)>>

ZeroSummary ==
    [average_score |-> Frac(0, 1), best_score |-> 0, worst_score |-> 0,
     total_frames |-> 0, frames_with_pose |-> 0,
     detection_rate |-> Frac(0, 1), exercise_duration |-> 0]

\* (frame position, joint key) of every value of a frame dictionary that is a
\* dictionary holding "score": the entries all_scores collects
ScoreEntries(scores_data) ==
    UNION {{<<i, j>> : j \in DOMAIN scores_data[i].joints} : i \in 1..Len(scores_data)}

RECURSIVE SumEntries(_, _)
SumEntries(scores_data, P) ==
    IF P = {} THEN 0
    ELSE LET e == CHOOSE q \in P : TRUE
         IN  scores_data[e[1]].joints[e[2]].score + SumEntries(scores_data, P \ {e})

\* PoseScorer.generate_analysis_summary, over a list of frame scores
PoseScorer_generate_analysis_summary(sc) ==
    IF sc = <<>> THEN ZeroSummary
    ELSE LET P == ScoreEntries(sc)
             all_scores == {sc[e[1]].joints[e[2]].score : e \in P}
             duration == sc[Len(sc)].timestamp_sec - sc[1].timestamp_sec
         IN  IF P = {}
             THEN [average_score |-> Frac(0, 1), best_score |-> 0, worst_score |-> 0,
                   total_frames |-> Len(sc), frames_with_pose |-> 0,
                   detection_rate |-> Frac(0, 1), exercise_duration |-> duration]
             ELSE [average_score |-> Frac(SumEntries(sc, P), Cardinality(P)),
                   best_score |-> CHOOSE m \in all_scores : \A x \in all_scores : x <= m,
                   worst_score |-> CHOOSE m \in all_scores : \A x \in all_scores : m <= x,
                   total_frames |-> Len(sc), frames_with_pose |-> Len(sc),
                   detection_rate |-> Frac(1, 1), exercise_duration |-> duration]

\* a faulty variant: without frame scores the landmark frames are not looked at
generate_analysis_summary_zero_without_scores(lmfile, scfile, rf) ==
    IF read_raises(lmfile, rf) \/ read_raises(scfile, rf) \/ scfile.data = <<>>
    THEN ZeroSummary
    ELSE [ZeroSummary EXCEPT !.total_frames = Len(lmfile.data),
                             !.frames_with_pose = Len(scfile.data)]

\* the summary returned; rf: one of the two files cannot be read.  Any exception
\* inside the try body is logged and answered with the all-zero summary
generate_analysis_summary(lmfile, scfile, rf) ==
    IF read_raises(lmfile, rf) \/ read_raises(scfile, rf) THEN ZeroSummary
    ELSE LET landmarks_data == lmfile.data
             scores_data == scfile.data
             total_frames == Len(landmarks_data)
             frames_with_pose == Len(scores_data)
             P == ScoreEntries(scores_data)
             all_scores == {scores_data[e[1]].joints[e[2]].score : e \in P}
         IN  [average_score |->
                 IF P # {} THEN Frac(SumEntries(scores_data, P), Cardinality(P))
                 ELSE Frac(0, 1),
              best_score |->
                 IF P # {} THEN CHOOSE m \in all_scores : \A x \in all_scores : x <= m
                 ELSE 0,
              worst_score |->
                 IF P # {} THEN CHOOSE m \in all_scores : \A x \in all_scores : m <= x
                 ELSE 0,
              total_frames |-> total_frames,
              frames_with_pose |-> frames_with_pose,
              detection_rate |->
                 IF total_frames > 0 THEN Frac(frames_with_pose, total_frames)
                 ELSE Frac(0, 1),
              exercise_duration |->
                 IF landmarks_data # <<>>
                 THEN landmarks_data[Len(landmarks_data)].timestamp_sec
                      - landmarks_data[1].timestamp_sec
                 ELSE 0]

-----------------------------------------------------------------------------
(* The output directory and utils.cleanup_temp_files.                      *)

\* uuid4 values
Ids == {"id1", "id2"}
Kinds == {"landmarks", "scores", "summary"}

\* os.path.join(output_dir, f"{analysis_id}_{kind}.json")
ArtifactPath(id, kind) == <<id, kind>>

\* the paths of a direct call of the scorer (test_system.py: test_landmarks.json,
\* test_scores.json)
TestLandmarks == <<"test", "landmarks">>
TestScores == <<"test", "scores">>

Paths == {ArtifactPath(id, k) : id \in Ids, k \in Kinds} \cup {TestLandmarks, TestScores}

\* a faulty variant: the scores file is left out of the list of files to remove
cleanup_temp_files_skip_scores(files, file_paths, rmfail) ==
    [p \in DOMAIN files |->
        IF p \in file_paths /\ p[2] # "scores" /\ files[p].exists /\ p \notin rmfail
        THEN Absent ELSE files[p]]

\* a faulty variant: whatever the output directory holds is removed
cleanup_temp_files_whole_directory(files, file_paths, rmfail) ==
    [p \in DOMAIN files |-> IF files[p].exists /\ p \notin rmfail THEN Absent ELSE files[p]]

\* every listed file that exists is removed; rmfail: the paths whose os.remove
\* raises OSError, which is logged as a warning and leaves the file in place
cleanup_temp_files(files, file_paths, rmfail) ==
    [p \in DOMAIN files |->
        IF p \in file_paths /\ files[p].exists /\ p \notin rmfail
        THEN Absent ELSE files[p]]

-----------------------------------------------------------------------------
(* Inputs.                                                                 *)

\* how many landmarks the engine returns for a frame in which it finds a pose
LmCounts == {0, 12, 16, 28, 33}

\* what the engine does with one frame sent to it
Outcomes ==
    {[kind |-> "none", n |-> 0, pose |-> "extended"],       \* no pose_landmarks
     [kind |-> "raise", n |-> 0, pose |-> "extended"]}      \* process() raises
    \cup {[kind |-> "pose", n |-> n, pose |-> p] : n \in LmCounts, p \in Poses}

\* the frames that are never sent to the engine all look alike
Filler == [kind |-> "pose", n |-> 33, pose |-> "extended"]

FramesOf(len, s) ==
    [i \in 1..len |-> IF i % FRAME_SKIP = 0 THEN s[i \div FRAME_SKIP] ELSE Filler]

MissingVideo ==
    [exists |-> FALSE, opens |-> FALSE, fps |-> 0, frame_count |-> 0, frames |-> <<>>]
CorruptVideo ==
    [exists |-> TRUE, opens |-> FALSE, fps |-> 0, frame_count |-> 0, frames |-> <<>>]

\* fps and frame_count are the container's metadata: 0 when it carries none
Videos ==
    {MissingVideo, CorruptVideo}
    \cup UNION {{[exists |-> TRUE, opens |-> TRUE, fps |-> f, frame_count |-> c,
                  frames |-> FramesOf(len, s)] :
                    s \in [1..(len \div FRAME_SKIP) -> Outcomes],
                    f \in {0, 30}, c \in {0, len}} : len \in 0..MaxFrames}

ExerciseTypes == {"arm_extension", "squat", "shoulder_press", "lunge"}

-----------------------------------------------------------------------------
(* VideoAnalyzer.run_pipeline, one invocation.                             *)

NoError == [type |-> "", cause |-> NoExc]

IdleFs == [p \in Paths |-> Absent]

\* the local state of an invocation that has not been entered
IdleLocals ==
    [pc |-> "idle", video |-> MissingVideo, exercise_type |-> "", analysis_id |-> "",
     results_data |-> <<>>, scores |-> <<>>, summary |-> <<>>, result |-> <<>>,
     exc |-> NoExc, error |-> NoError, frame_faults |-> {}, summary_fault |-> FALSE,
     rm_failed |-> {}, pose_closed |-> FALSE]

\* names generate_unique_filename gives to uploaded videos (a uuid4 each)
UploadNames == {"u1", "u2"}

\* no Authorization header
NoCredentials == [scheme |-> "", length |-> 0]

\* status 0: not answered yet
NoRequest ==
    [endpoint |-> "", credentials |-> NoCredentials, upload |-> "", analysis_id |-> "",
     status |-> 0]

\* api.py at import: empty stores, nothing uploaded, no request
ApiStarted ==
    /\ analysis_results = <<>>
    /\ uploads = [u \in UploadNames |-> "unused"]
    /\ http = NoRequest

\* no invocation yet; the engine was created open by PoseDetector.__init__
NotCalled ==
    /\ ApiStarted
    /\ pose_closed = FALSE
    /\ used_ids = {}
    /\ other = IdleLocals
    /\ pc = "idle"
    /\ video = MissingVideo
    /\ exercise_type = ""
    /\ analysis_id = ""
    /\ results_data = <<>>
    /\ scores = <<>>
    /\ summary = <<>>
    /\ result = <<>>
    /\ exc = NoExc
    /\ error = NoError
    /\ frame_faults = {}
    /\ summary_fault = FALSE
    /\ rm_failed = {}

Idle == NotCalled /\ fs = IdleFs

Init ==
    /\ Idle
    /\ arg = <<>>
    /\ ret = <<>>

\* the three paths of the run
landmarks_path == ArtifactPath(analysis_id, "landmarks")

\* a faulty variant: the scores are written over the landmarks file
scores_path_over_landmarks == ArtifactPath(analysis_id, "landmarks")

scores_path == ArtifactPath(analysis_id, "scores")

summary_path == ArtifactPath(analysis_id, "summary")

\* lines 56-57: the call is entered, the identifier drawn
Enter(videos, exercise_types) ==
    /\ pc = "idle"
    /\ \E v \in videos, ex \in exercise_types, id \in Ids \ used_ids :
          /\ video' = v
          /\ exercise_type' = ex
          /\ analysis_id' = id
          /\ used_ids' = used_ids \cup {id}
    /\ pc' = "validate"
    /\ UNCHANGED <<fs, results_data, scores, summary, result, exc, error, frame_faults,
                   summary_fault, rm_failed, arg, ret>>
    /\ UNCHANGED <<pose_closed, other>>

\* run_pipeline called on its own, outside a request
CallWith(videos, exercise_types) ==
    /\ Enter(videos, exercise_types)
    /\ UNCHANGED <<analysis_results, uploads, http>>

Call == CallWith(Videos, ExerciseTypes)

\* lines 64-74: the input check, the output directory (whose creation can fail),
\* the three paths
Validate ==
    /\ pc = "validate"
    /\ \E mkdir_fails \in BOOLEAN :
          CASE ~video.exists ->
                  exc' = Raised("FileNotFoundError", "Video file not found") /\ pc' = "cleanup"
            [] video.exists /\ mkdir_fails ->
                  exc' = Raised("OSError", "cannot create directory") /\ pc' = "cleanup"
            [] OTHER -> exc' = exc /\ pc' = "extract"
    /\ UNCHANGED <<video, exercise_type, analysis_id, fs, results_data, scores,
                   summary, result, error, frame_faults, summary_fault, rm_failed,
                   arg, ret>>
    /\ UNCHANGED <<pose_closed, used_ids, other>>
    /\ UNCHANGED <<analysis_results, uploads, http>>

\* self.pose.process on an engine that close() has shut down raises for every
\* frame sent to it
ClosedEngine(v) ==
    [v EXCEPT !.frames = [i \in DOMAIN v.frames |->
                            [kind |-> "raise", n |-> 0, pose |-> "extended"]]]

\* line 78: step 1.  The finally clause of extract_pose_landmarks (lines 169-172)
\* closes the engine of the detector once the video has opened; closing an engine
\* that is already closed raises ValueError, which replaces what was being raised
Extract ==
    /\ pc = "extract"
    /\ \E wf \in WriteFaults :
          LET r == extract_pose_landmarks(IF pose_closed THEN ClosedEngine(video) ELSE video,
                                          fs[landmarks_path], wf)
              raised == IF pose_closed /\ video.exists /\ video.opens
                        THEN Raised("ValueError",
                                    "Closing SolutionBase._graph which is already None")
                        ELSE r.raised
          IN  /\ fs' = [fs EXCEPT ![landmarks_path] = r.file]
              /\ results_data' = r.results_data
              /\ IF raised = NoExc
                 THEN exc' = exc /\ pc' = "score"
                 ELSE exc' = raised /\ pc' = "cleanup"
    /\ pose_closed' = (pose_closed \/ (video.exists /\ video.opens))
    /\ UNCHANGED <<video, exercise_type, analysis_id, scores, summary, result,
                   error, frame_faults, summary_fault, rm_failed, arg, ret>>
    /\ UNCHANGED <<used_ids, other>>
    /\ UNCHANGED <<analysis_results, uploads, http>>

\* line 82: step 2
Score ==
    /\ pc = "score"
    /\ \E rf \in BOOLEAN, wf \in WriteFaults,
          bad \in SUBSET (1..Len(fs[landmarks_path].data)) :
          LET r == score_from_landmarks(fs[landmarks_path], exercise_type, rf, bad,
                                        fs[scores_path], wf)
          IN  /\ fs' = [fs EXCEPT ![scores_path] = r.file]
              /\ scores' = r.scores
              /\ frame_faults' = IF r.scores = <<>> /\ r.raised.msg # "No valid scores generated"
                                 THEN {} ELSE bad
              /\ IF r.raised = NoExc
                 THEN exc' = exc /\ pc' = "summarize"
                 ELSE exc' = r.raised /\ pc' = "cleanup"
    /\ UNCHANGED <<video, exercise_type, analysis_id, results_data, summary, result,
                   error, summary_fault, rm_failed, arg, ret>>
    /\ UNCHANGED <<pose_closed, used_ids, other>>
    /\ UNCHANGED <<analysis_results, uploads, http>>

\* lines 86-88: step 3
Summarize ==
    /\ pc = "summarize"
    /\ \E rf \in BOOLEAN :
          /\ summary' = <<generate_analysis_summary(fs[landmarks_path],
                                                    fs[scores_path], rf)>>
          /\ summary_fault' = (read_raises(fs[landmarks_path], rf)
                               \/ read_raises(fs[scores_path], rf))
    /\ pc' = "save_summary"
    /\ UNCHANGED <<video, exercise_type, analysis_id, fs, results_data, scores,
                   result, exc, error, frame_faults, rm_failed, arg, ret>>
    /\ UNCHANGED <<pose_closed, used_ids, other>>
    /\ UNCHANGED <<analysis_results, uploads, http>>

\* calculate_processing_time(start_time): the wall-clock seconds since entry, in
\* hundredths; how long the run took is the environment's
ProcessingTimes == {1, 250}

\* lines 91-113: the summary is saved and the result returned
SaveSummary ==
    /\ pc = "save_summary"
    /\ \E wf \in WriteFaults :
          LET w == save_json_file(summary, fs[summary_path], wf)
          IN  /\ fs' = [fs EXCEPT ![summary_path] = w.file]
              /\ IF w.raised
                 THEN /\ exc' = Raised("HTTPException", "Failed to save analysis results")
                      /\ pc' = "cleanup"
                      /\ result' = result
                 ELSE /\ exc' = exc
                      /\ pc' = "done"
                      /\ \E processing_time \in ProcessingTimes :
                         result' = <<[analysis_id |-> analysis_id,
                                      status |-> "completed",
                                      processing_time |-> processing_time,
                                      exercise_type |-> exercise_type,
                                      files |-> [landmarks_file |-> landmarks_path,
                                                 scores_file |-> scores_path,
                                                 summary_file |-> summary_path],
                                      summary |-> summary[1]]>>
    /\ UNCHANGED <<video, exercise_type, analysis_id, results_data, scores, summary,
                   error, frame_faults, summary_fault, rm_failed, arg, ret>>
    /\ UNCHANGED <<pose_closed, used_ids, other>>
    /\ UNCHANGED <<analysis_results, uploads, http>>

\* lines 115-126: the except clause removes the run's files and raises
\* RuntimeError(f"Analysis pipeline failed: {str(e)}")
Cleanup ==
    /\ pc = "cleanup"
    /\ \E rmfail \in SUBSET {p \in {landmarks_path, scores_path, summary_path} :
                                fs[p].exists} :
          /\ fs' = cleanup_temp_files(fs, {landmarks_path, scores_path, summary_path},
                                      rmfail)
          /\ rm_failed' = rmfail
    /\ error' = [type |-> "RuntimeError", cause |-> exc]
    /\ pc' = "failed"
    /\ UNCHANGED <<video, exercise_type, analysis_id, results_data, scores, summary,
                   result, exc, frame_faults, summary_fault, arg, ret>>
    /\ UNCHANGED <<pose_closed, used_ids, other>>
    /\ UNCHANGED <<analysis_results, uploads, http>>

Next ==
    \/ Call
    \/ Validate
    \/ Extract
    \/ Score
    \/ Summarize
    \/ SaveSummary
    \/ Cleanup

Spec == Init /\ [][Next]_vars

-----------------------------------------------------------------------------
(* Functions called directly, on inputs drawn from bounded sets.           *)

\* the points handed to _calculate_angle
AnglePoints == ((3..5) \X (5..7)) \cup {NonNumeric}

InitAngle ==
    /\ Idle
    /\ arg \in AnglePoints \X AnglePoints \X AnglePoints
    /\ ret = <<>>

CallCalculateAngle ==
    /\ Len(arg) = 3
    /\ ret = <<>>
    /\ ret' = <<calculate_angle(arg[1], arg[2], arg[3])>>
    /\ UNCHANGED <<pc, video, exercise_type, analysis_id, fs, results_data, scores,
                   summary, result, exc, error, frame_faults, summary_fault,
                   rm_failed, arg>>
    /\ UNCHANGED <<pose_closed, used_ids, other>>
    /\ UNCHANGED <<analysis_results, uploads, http>>

SpecAngle == InitAngle /\ [][CallCalculateAngle]_vars

\* the bounds of every configured range, in degrees
RangeBounds ==
    UNION {{EXERCISE_CONFIGS[e].perfect_angle_range[1],
            EXERCISE_CONFIGS[e].perfect_angle_range[2],
            EXERCISE_CONFIGS[e].good_angle_range[1],
            EXERCISE_CONFIGS[e].good_angle_range[2]} : e \in DOMAIN EXERCISE_CONFIGS}

\* the angles handed to _calculate_joint_score: every bound, a thousandth below
\* and above it, the middle of a gap between the ranges, 0 and NaN
AngleInputs ==
    {Num(b * 1000 + d) : b \in RangeBounds, d \in {-1, 0, 1}}
    \cup {Num(0), Num(149500), NaN}

InitJoint ==
    /\ Idle
    /\ arg \in AngleInputs \X DOMAIN EXERCISE_CONFIGS
    /\ ret = <<>>

CallCalculateJointScore ==
    /\ Len(arg) = 2
    /\ ret = <<>>
    /\ ret' = <<calculate_joint_score(arg[1], EXERCISE_CONFIGS[arg[2]])>>
    /\ UNCHANGED <<pc, video, exercise_type, analysis_id, fs, results_data, scores,
                   summary, result, exc, error, frame_faults, summary_fault,
                   rm_failed, arg>>
    /\ UNCHANGED <<pose_closed, used_ids, other>>
    /\ UNCHANGED <<analysis_results, uploads, http>>

SpecJoint == InitJoint /\ [][CallCalculateJointScore]_vars

\* landmark lists of a landmarks file written by hand or by another producer:
\* the ids 0 .. n-1 in order, without the id drop
NoDrop == -1
FileLandmarks(n, pose, drop) ==
    LET ids == {i \in 0..(n - 1) : i # drop}
        nth(k) == CHOOSE i \in ids : Cardinality({j \in ids : j < i}) = k - 1
    IN  [k \in 1..Cardinality(ids) |->
            [id |-> nth(k), x |-> PoseCoord(pose, nth(k))[1],
             y |-> PoseCoord(pose, nth(k))[2]]]

FileShapes == {<<n, pose, drop>> : n \in {12, 16, 33}, pose \in Poses, drop \in {NoDrop, 11}}

\* the k-th record of such a file is frame 5k at 30 fps
FileFrame(k, shape) ==
    [frame |-> FRAME_SKIP * k,
     timestamp_sec |-> Timestamp(FRAME_SKIP * k, 30),
     landmarks |-> FileLandmarks(shape[1], shape[2], shape[3])]

LandmarkFiles ==
    UNION {{[k \in 1..len |-> FileFrame(k, sh[k])] : sh \in [1..len -> FileShapes]} :
             len \in 1..MaxFileFrames}

InitScorer ==
    /\ NotCalled
    /\ \E data \in LandmarkFiles : fs = [IdleFs EXCEPT ![TestLandmarks] = Written(data)]
    /\ arg \in {<<ex>> : ex \in ExerciseTypes}
    /\ ret = <<>>

\* scorer.score_from_landmarks(landmarks_file, scores_file, exercise_type), as
\* test_end_to_end_pipeline calls it
CallScoreFromLandmarks ==
    /\ Len(arg) = 1
    /\ ret = <<>>
    /\ \E wf \in WriteFaults, bad \in SUBSET (1..Len(fs[TestLandmarks].data)) :
          LET r == score_from_landmarks(fs[TestLandmarks], arg[1], FALSE, bad,
                                        fs[TestScores], wf)
          IN  /\ fs' = [fs EXCEPT ![TestScores] = r.file]
              /\ scores' = r.scores
              /\ frame_faults' = bad
              /\ ret' = <<r.raised>>
    /\ UNCHANGED <<pc, video, exercise_type, analysis_id, results_data, summary,
                   result, exc, error, summary_fault, rm_failed, arg>>
    /\ UNCHANGED <<pose_closed, used_ids, other>>
    /\ UNCHANGED <<analysis_results, uploads, http>>

SpecScorer == InitScorer /\ [][CallScoreFromLandmarks]_vars

-----------------------------------------------------------------------------
(* Properties.                                                             *)

Artifacts(id) == {ArtifactPath(id, k) : k \in Kinds}

\* no frame dictionary of sc holds a joint score
NoUsableScores(sc) == \A i \in 1..Len(sc) : DOMAIN sc[i].joints = {}

C2_ArtifactsNamedFromId ==
    /\ analysis_id = "" => \A p \in Paths : ~fs[p].exists
    /\ \A p \in Paths : fs[p].exists => p \in Artifacts(analysis_id)
    /\ pc = "done" =>
          /\ result # <<>>
          /\ result[1].status = "completed"
          /\ result[1].analysis_id = analysis_id
          /\ result[1].files = [landmarks_file |-> ArtifactPath(analysis_id, "landmarks"),
                                scores_file |-> ArtifactPath(analysis_id, "scores"),
                                summary_file |-> ArtifactPath(analysis_id, "summary")]
          /\ \A f \in {result[1].files.landmarks_file, result[1].files.scores_file,
                       result[1].files.summary_file} :
                fs[f].exists /\ fs[f].complete
    /\ result # <<>> => pc = "done"

\* C2 witness: a run has returned.
C2_Witness == pc = "done" /\ result # <<>> /\ result[1].status = "completed"

\* the stage of the specification's state machine a position belongs to
StageOf(p) ==
    CASE p = "idle" -> "NONE"
      [] p = "validate" -> "START"
      [] p = "extract" -> "EXTRACT"
      [] p = "score" -> "SCORE"
      [] p \in {"summarize", "save_summary"} -> "SUMMARIZE"
      [] p = "done" -> "DONE"
      [] p \in {"cleanup", "failed"} -> "FAILED"

StageAfter(st) ==
    CASE st = "NONE" -> "START"
      [] st = "START" -> "EXTRACT"
      [] st = "EXTRACT" -> "SCORE"
      [] st = "SCORE" -> "SUMMARIZE"
      [] st = "SUMMARIZE" -> "DONE"
      [] OTHER -> st

\* the order of the stages alone: a step stays in its stage, moves to the next
\* one or moves to FAILED; scoring starts only with the landmarks file written,
\* the summary file is written only with the scores file written
StageOrder ==
    /\ StageOf(pc') \in {StageOf(pc), StageAfter(StageOf(pc)), "FAILED"}
    /\ StageOf(pc) \in {"DONE", "FAILED"} => StageOf(pc') = StageOf(pc)
    /\ pc' = "score" => fs'[landmarks_path'].exists /\ fs'[landmarks_path'].complete
    /\ (fs'[summary_path'].exists /\ ~fs[summary_path'].exists) =>
          fs[scores_path].exists /\ fs[scores_path].complete

\* C3, as claimed: the stages run in the order START, EXTRACT, SCORE, SUMMARIZE,
\* DONE, none is re-entered, scoring never starts before the landmarks file is
\* written, the summary is never written before the scores file, and a failure
\* in a stage (an exception it raises, or a fault while the summary is
\* generated) moves the run to FAILED.
C3_StagesInOrderFailureFails ==
    [][/\ StageOrder
       /\ (exc' # exc \/ (summary_fault' /\ ~summary_fault)) => StageOf(pc') = "FAILED"]_vars

\* C4, as claimed: a run on a video path that does not exist fails with the
\* NotFound kind (FileNotFoundError) and leaves no artifact file.
C4_MissingVideoFailsNotFound ==
    (pc = "failed" /\ ~video.exists) =>
        /\ error.type = "FileNotFoundError"
        /\ \A p \in Paths : ~fs[p].exists

\* extraction has run on a video that opened and recorded no landmark frame
ZeroFramesExtracted ==
    /\ pc \notin {"idle", "validate", "extract"}
    /\ video.exists /\ video.opens
    /\ results_data = <<>>

\* C5: when extraction yields zero landmark frames the run fails (it never
\* reaches scoring, the summary or a completed result) and no landmarks file of
\* the identifier exists.
C5_ZeroFramesFail ==
    ZeroFramesExtracted =>
        /\ pc \in {"cleanup", "failed"}
        /\ result = <<>>
        /\ ~fs[landmarks_path].exists

\* C5 witness: a video with frames sent to the engine, none of which gave a
\* landmark frame, and the run has failed.
C5_Witness ==
    /\ pc = "failed"
    /\ ZeroFramesExtracted
    /\ video.fps > 0
    /\ Len(video.frames) >= FRAME_SKIP
    /\ exc.msg = "No pose landmarks detected in video"

\* C6, as claimed: with at least one landmark frame extracted, a scoring result
\* without a usable frame score is not a failure (the scorer does not raise for
\* it), and the run that completes returns all-zero score statistics.
C6_EmptyScoringCompletes ==
    /\ (pc \in {"cleanup", "failed"} /\ results_data # <<>>) =>
          exc.msg # "No valid scores generated"
    /\ (pc = "done" /\ NoUsableScores(scores)) =>
          /\ result[1].summary.average_score = Frac(0, 1)
          /\ result[1].summary.best_score = 0
          /\ result[1].summary.worst_score = 0

\* C7, as claimed: every record of a written scores sequence holds at least one
\* joint score.
C7_NoEmptyScoreRecord ==
    \A p \in Paths :
        (p[2] = "scores" /\ fs[p].exists /\ fs[p].complete) =>
            \A i \in 1..Len(fs[p].data) : DOMAIN fs[p].data[i].joints # {}

\* the landmark ids of the triple that fills in a joint key
TripleIds(joint) ==
    LET t == IF joint \in DOMAIN ArmTriples THEN ArmTriples[joint]
             ELSE IF joint \in DOMAIN SquatTriples THEN SquatTriples[joint]
             ELSE ShoulderTriples[joint]
    IN  {joint_mapping[t[i]] : i \in 1..3}

\* the ids of the landmark set of the frame numbered f of a landmarks file
IdsOfFrame(data, f) ==
    UNION {{data[i].landmarks[k].id : k \in 1..Len(data[i].landmarks)} :
             i \in {j \in 1..Len(data) : data[j].frame = f}}

InClosed(x, r) == (~x.nan) /\ x.md >= r[1] * 1000 /\ x.md <= r[2] * 1000

\* C9: the perfect range is tested first and both ranges are closed: an angle in
\* the perfect range scores PERFECT, an angle in the good range and not in the
\* perfect range scores GOOD, every other angle scores NEEDS_IMPROVEMENT, and the
\* score is one of the three tier values.
C9_ClosedTiers ==
    (Len(arg) = 2 /\ ret # <<>>) =>
        LET cfg == EXERCISE_CONFIGS[arg[2]]
            perfect == InClosed(arg[1], cfg.perfect_angle_range)
            good == InClosed(arg[1], cfg.good_angle_range)
        IN  /\ perfect => ret[1].score = PERFECT_SCORE
            /\ (good /\ ~perfect) => ret[1].score = GOOD_SCORE
            /\ (~good /\ ~perfect) => ret[1].score = NEEDS_IMPROVEMENT_SCORE
            /\ ret[1].score \in {PERFECT_SCORE, GOOD_SCORE, NEEDS_IMPROVEMENT_SCORE}

\* C9 witness: an angle equal to the lower bound of the perfect range of the arm
\* extension has scored PERFECT.
C9_Witness ==
    /\ Len(arg) = 2 /\ ret # <<>>
    /\ arg[2] = "arm_extension"
    /\ arg[1] = Num(EXERCISE_CONFIGS["arm_extension"].perfect_angle_range[1] * 1000)
    /\ ret[1].score = PERFECT_SCORE

\* C10, as claimed: _calculate_angle returns a value in [0, 180] for every
\* triple of points, and 0.0 when the vertex coincides with a neighbour.
C10_AngleInRangeFallbackZero ==
    (Len(arg) = 3 /\ ret # <<>>) =>
        /\ ~ret[1].nan
        /\ 0 <= ret[1].md /\ ret[1].md <= 180000
        /\ (arg[1] # NonNumeric /\ arg[2] # NonNumeric /\ arg[3] # NonNumeric
            /\ (arg[1] = arg[2] \/ arg[3] = arg[2])) => ret[1] = Num(0)

\* what a caller-imposed timeout or cancellation raises inside the call: an
\* exception of class Exception (a TimeoutError raised by an alarm handler), or
\* one that is only a BaseException (KeyboardInterrupt, asyncio.CancelledError)
Interruptions ==
    {Raised("TimeoutError", "timed out"), Raised("KeyboardInterrupt", "")}

\* the call is interrupted inside the try body, between two steps.  The clause
\* "except Exception" of line 115 catches the first kind and cleans up; the
\* second kind leaves run_pipeline through no handler
Interrupt ==
    /\ pc \in {"validate", "extract", "score", "summarize", "save_summary"}
    /\ \E e \in Interruptions :
          IF e.type = "TimeoutError"
          THEN exc' = e /\ pc' = "cleanup" /\ error' = error
          ELSE exc' = exc /\ pc' = "interrupted" /\ error' = [type |-> e.type, cause |-> NoExc]
    /\ UNCHANGED <<video, exercise_type, analysis_id, fs, results_data, scores, summary,
                   result, frame_faults, summary_fault, rm_failed, pose_closed, used_ids,
                   other, arg, ret>>
    /\ UNCHANGED <<analysis_results, uploads, http>>

SpecCancel == Init /\ [][Next \/ Interrupt]_vars

\* C18, as claimed: a run interrupted by a timeout or a cancellation leaves no
\* artifact file of its identifier, as the failure cleanup still runs.
C18_InterruptedRunCleansUp ==
    pc = "interrupted" => \A p \in Artifacts(analysis_id) : ~fs[p].exists

\* run_pipeline has returned or raised: the caller holds the outcome and the
\* analyzer (api.py keeps one for every request) can be called again.  The files
\* and the engine stay as the run left them
Leave ==
    /\ pc \in {"done", "failed"}
    /\ pc' = IdleLocals.pc
    /\ video' = IdleLocals.video
    /\ exercise_type' = IdleLocals.exercise_type
    /\ analysis_id' = IdleLocals.analysis_id
    /\ results_data' = IdleLocals.results_data
    /\ scores' = IdleLocals.scores
    /\ summary' = IdleLocals.summary
    /\ result' = IdleLocals.result
    /\ exc' = IdleLocals.exc
    /\ error' = IdleLocals.error
    /\ frame_faults' = IdleLocals.frame_faults
    /\ summary_fault' = IdleLocals.summary_fault
    /\ rm_failed' = IdleLocals.rm_failed
    /\ UNCHANGED <<fs, pose_closed, used_ids, other, arg, ret>>

Return ==
    /\ Leave
    /\ UNCHANGED <<analysis_results, uploads, http>>

\* the videos of the runs that follow one another: none, one that does not open,
\* and FRAME_SKIP frames of which the sampled one shows a full pose or nothing
ShortVideos ==
    {MissingVideo, CorruptVideo}
    \cup {[exists |-> TRUE, opens |-> TRUE, fps |-> 30, frame_count |-> FRAME_SKIP,
            frames |-> FramesOf(FRAME_SKIP, <<o>>)] :
              o \in {Filler, [kind |-> "none", n |-> 0, pose |-> "extended"]}}

CallShort == CallWith(ShortVideos, {"arm_extension"})

NextReuse ==
    \/ CallShort
    \/ Validate
    \/ Extract
    \/ Score
    \/ Summarize
    \/ SaveSummary
    \/ Cleanup
    \/ Return

SpecReuse == Init /\ [][NextReuse]_vars

\* the engine finds a pose in a frame that is sent to it
HasPose(v) ==
    \E k \in 1..Len(v.frames) : sampled(k) /\ v.frames[k].kind = "pose" /\ v.frames[k].n > 0

\* C19, as claimed: a run's extraction does not depend on earlier runs of the
\* same analyzer: on a video that opens, has a frame rate and shows a pose in a
\* sampled frame it records landmark frames, first run or not.
C19_ExtractionIndependentOfEarlierRuns ==
    (/\ pc \notin {"idle", "validate", "extract"}
     /\ video.exists /\ video.opens /\ video.fps > 0
     /\ HasPose(video)
     /\ exc.type # "OSError") => results_data # <<>>

\* two invocations, each on an analyzer of its own (as the module-level
\* run_pipeline creates one per call), share the output directory and the source
\* of identifiers.  One of them runs; this step suspends it and resumes the other
Switch ==
    /\ other' = [pc |-> pc, video |-> video, exercise_type |-> exercise_type,
                 analysis_id |-> analysis_id, results_data |-> results_data,
                 scores |-> scores, summary |-> summary, result |-> result,
                 exc |-> exc, error |-> error, frame_faults |-> frame_faults,
                 summary_fault |-> summary_fault, rm_failed |-> rm_failed,
                 pose_closed |-> pose_closed]
    /\ pc' = other.pc
    /\ video' = other.video
    /\ exercise_type' = other.exercise_type
    /\ analysis_id' = other.analysis_id
    /\ results_data' = other.results_data
    /\ scores' = other.scores
    /\ summary' = other.summary
    /\ result' = other.result
    /\ exc' = other.exc
    /\ error' = other.error
    /\ frame_faults' = other.frame_faults
    /\ summary_fault' = other.summary_fault
    /\ rm_failed' = other.rm_failed
    /\ pose_closed' = other.pose_closed
    /\ UNCHANGED <<fs, used_ids, arg, ret>>
    /\ UNCHANGED <<analysis_results, uploads, http>>

NextConcurrent ==
    \/ CallShort
    \/ Validate
    \/ Extract
    \/ Score
    \/ Summarize
    \/ SaveSummary
    \/ Cleanup
    \/ Switch

SpecConcurrent == Init /\ [][NextConcurrent]_vars

\* C20: in every interleaving of two invocations on one output directory the two
\* identifiers differ, a step of an invocation creates, rewrites or removes only
\* files named from that invocation's identifier, and the artifacts of an
\* invocation that has returned stay in place whatever the other one does.
C20_RunsTouchOnlyTheirOwnFiles ==
    /\ []((analysis_id # "" /\ other.analysis_id # "") => analysis_id # other.analysis_id)
    /\ [](other.pc = "done" =>
             \A p \in Artifacts(other.analysis_id) : fs[p].exists /\ fs[p].complete)
    /\ [][\A p \in Paths : fs'[p] # fs[p] => p \in Artifacts(analysis_id)]_vars

\* C20 witness: one invocation has returned with its three artifacts; the other
\* failed in scoring after writing its landmarks file, and its cleanup removed
\* that file and left the three of the first.
C20_Witness ==
    /\ pc = "failed"
    /\ exc.msg = "No valid scores generated"
    /\ rm_failed = {}
    /\ \A p \in Artifacts(analysis_id) : ~fs[p].exists
    /\ other.pc = "done"
    /\ \A p \in Artifacts(other.analysis_id) : fs[p].exists /\ fs[p].complete

\* the landmarks and scores files handed directly to the summary functions: the
\* scores of a landmarks file for an exercise, with the frames of bad left out
\* (all of them: an empty score sequence), beside that file or an empty one
SummaryInputs ==
    UNION {{<<lm, score_loop(lm0, EXERCISE_CONFIGS[ex], bad, Len(lm0))>> :
               lm \in {lm0, <<>>}, ex \in DOMAIN EXERCISE_CONFIGS,
               bad \in SUBSET (1..Len(lm0))} : lm0 \in LandmarkFiles}

InitSummary ==
    /\ NotCalled
    /\ \E inp \in SummaryInputs :
          fs = [IdleFs EXCEPT ![TestLandmarks] = Written(inp[1]),
                              ![TestScores] = Written(inp[2])]
    /\ arg = <<>>
    /\ ret = <<>>

\* analyzer._generate_analysis_summary(landmarks_path, scores_path, ...)
CallGenerateAnalysisSummary ==
    /\ summary = <<>>
    /\ \E rf \in BOOLEAN :
          /\ summary' = <<generate_analysis_summary(fs[TestLandmarks], fs[TestScores], rf)>>
          /\ summary_fault' = (read_raises(fs[TestLandmarks], rf)
                               \/ read_raises(fs[TestScores], rf))
    /\ UNCHANGED <<pc, video, exercise_type, analysis_id, fs, results_data, scores,
                   result, exc, error, frame_faults, rm_failed, pose_closed, used_ids,
                   other, arg, ret>>
    /\ UNCHANGED <<analysis_results, uploads, http>>

\* scorer.generate_analysis_summary(scores), on the list the scores file holds
CallScorerGenerateAnalysisSummary ==
    /\ ret = <<>>
    /\ arg' = <<fs[TestScores].data>>
    /\ ret' = <<PoseScorer_generate_analysis_summary(fs[TestScores].data)>>
    /\ UNCHANGED <<pc, video, exercise_type, analysis_id, fs, results_data, scores,
                   summary, result, exc, error, frame_faults, summary_fault, rm_failed,
                   pose_closed, used_ids, other>>
    /\ UNCHANGED <<analysis_results, uploads, http>>

SpecSummary ==
    InitSummary /\ [][CallGenerateAnalysisSummary \/ CallScorerGenerateAnalysisSummary]_vars

\* the time between the first and the last record of a sequence of frames
Span(data) ==
    IF data = <<>> THEN 0 ELSE data[Len(data)].timestamp_sec - data[1].timestamp_sec

C11_SummaryCountsFrames ==
    summary # <<>> =>
        /\ summary[1].total_frames = Len(results_data)
        /\ summary[1].frames_with_pose = Len(scores)
        /\ summary[1].detection_rate =
              IF Len(results_data) > 0 THEN Frac(Len(scores), Len(results_data))
              ELSE Frac(0, 1)

\* C13, as claimed: exercise_duration of the pipeline's summary is the timestamp
\* of the last landmark frame minus that of the first, whichever frames were
\* scored, and 0.0 without landmark frames.
C13_DurationFromLandmarkFrames ==
    summary # <<>> =>
        summary[1].exercise_duration =
            IF results_data = <<>> THEN 0
            ELSE results_data[Len(results_data)].timestamp_sec
                 - results_data[1].timestamp_sec

\* C14, as claimed: the processing time is reported to the caller by the result
\* of a run that returns and by the failure of a run that raises.
C14_ProcessingTimeAlwaysReported ==
    /\ pc = "done" => "processing_time" \in DOMAIN result[1]
    /\ pc = "failed" => "processing_time" \in DOMAIN error

\* C15, as claimed: run_pipeline never returns a completed result after a fault
\* raised while the summary was generated.
C15_SummaryFaultFailsTheRun ==
    pc = "done" => ~summary_fault

\* str(e) of a failed open() names the path, which holds the identifier; no other
\* message raised in the pipeline names a path of the run or the identifier
PathBearingMessages == {"cannot read landmarks"}

\* what RuntimeError(f"Analysis pipeline failed: {str(e)}") tells the caller is
\* the message of its cause and nothing else
CarriesAnalysisId(e) == e.cause.msg \in PathBearingMessages

\* C16, as claimed: every failure run_pipeline surfaces carries the analysis
\* identifier of the run.
C16_FailureCarriesIdentifier ==
    pc = "failed" => CarriesAnalysisId(error)

\* the failures of score_from_landmarks that are not the fault of a frame
ScorerWideFailures ==
    {"cannot read landmarks", "No landmarks data found", "Unsupported exercise type",
     "Failed to save analysis results"}

\* C17, as claimed: when the scoring step meets frames whose scoring raises, and
\* nothing else fails in it, the step does not fail the run: the records of the
\* other frames are written, in the order of the landmark frames, and the run
\* moves on to the summary.
C17_FrameFaultsAbsorbed ==
    [][(pc = "score" /\ pc' # "score" /\ frame_faults' # {}
        /\ exc'.msg \notin ScorerWideFailures) =>
          /\ pc' = "summarize"
          /\ fs'[scores_path].exists /\ fs'[scores_path].complete
          /\ fs'[scores_path].data = scores'
          /\ {scores'[i].frame : i \in 1..Len(scores')} =
                {results_data[k].frame : k \in (1..Len(results_data)) \ frame_faults'}
          /\ \A i, j \in 1..Len(scores') : i < j => scores'[i].frame < scores'[j].frame]_vars

-----------------------------------------------------------------------------
(* Frame sampling of the extraction loop.                                  *)

\* the decoded frames of the video that hold a non-empty landmark set and whose
\* 1-based index is a multiple of FRAME_SKIP
SampledPoses(v) ==
    {k \in 1..Len(v.frames) : /\ k % FRAME_SKIP = 0
                              /\ v.frames[k].kind = "pose"
                              /\ v.frames[k].n > 0}

\* the loop of lines 111-153 has run over the whole video: the engine is closed by
\* the finally clause that follows it, and no timestamp division failed
ExtractionLooped ==
    /\ pc \notin {"idle", "validate", "extract"}
    /\ pose_closed
    /\ video.fps > 0

\* C21: with frame skip N the recorded landmark frames have strictly increasing
\* indices that are all multiples of N, none of them has an empty landmark set,
\* and after the loop has run they are exactly the frames at multiples of N in
\* which the engine found a pose.
C21_OnlySampledFramesRecorded ==
    /\ \A i \in 1..Len(results_data) :
          /\ results_data[i].frame % FRAME_SKIP = 0
          /\ results_data[i].landmarks # <<>>
    /\ \A i, j \in 1..Len(results_data) :
          i < j => results_data[i].frame < results_data[j].frame
    /\ ExtractionLooped =>
          {results_data[i].frame : i \in 1..Len(results_data)} = SampledPoses(video)

\* two sampled frames, the first with an empty landmark list, the second recorded
C21_Witness ==
    /\ ExtractionLooped
    /\ Len(video.frames) = 2 * FRAME_SKIP
    /\ video.frames[FRAME_SKIP].kind = "pose" /\ video.frames[FRAME_SKIP].n = 0
    /\ Len(results_data) = 1 /\ results_data[1].frame = 2 * FRAME_SKIP

-----------------------------------------------------------------------------
(* Arm extension over full landmark sets.                                  *)

\* the full 33-point set, each point at the position of its id, as the detector
\* and the fixture of test_end_to_end_pipeline write it
FullSet(landmarks) ==
    /\ Len(landmarks) = 33
    /\ \A i \in 1..33 : landmarks[i].id = i - 1

PointOf(landmarks, id) ==
    LET l == CHOOSE m \in {landmarks[i] : i \in 1..Len(landmarks)} : m.id = id
    IN  <<l.x, l.y>>

\* the angle at the left elbow (13) between the left shoulder (11) and the left
\* wrist (15), in thousandths of a degree, for the two arm shapes of the inputs:
\* collinear points give 180.0; (0.3,0.5), (0.4,0.5), (0.5,0.6) give 135.0
LeftElbowAngle(landmarks) ==
    LET a == PointOf(landmarks, 11)
        b == PointOf(landmarks, 13)
        c == PointOf(landmarks, 15)
        cross == (a[1] - b[1]) * (c[2] - b[2]) - (a[2] - b[2]) * (c[1] - b[1])
    IN  IF cross = 0 THEN 180000 ELSE 135000

\* 150-180 perfect, 120-149 good, anything else needs improvement
ArmExtensionTier(md) ==
    IF 150000 <= md /\ md <= 180000 THEN PERFECT_SCORE
    ELSE IF 120000 <= md /\ md <= 149000 THEN GOOD_SCORE
    ELSE NEEDS_IMPROVEMENT_SCORE

ArmExtensionScored ==
    /\ Len(arg) = 1 /\ arg[1] = "arm_extension"
    /\ ret = <<NoExc>>

\* C22: scoring landmark frames that hold the full 33-point set for arm_extension
\* gives every frame a left_arm score whose angle is the one at the left elbow
\* between the left shoulder and the left wrist and whose tier follows the
\* configured ranges; for the collinear fixture the tier is PERFECT_SCORE.
C22_LeftArmScoredFromItsTriple ==
    ArmExtensionScored =>
        LET lm == fs[TestLandmarks].data
            sc == fs[TestScores].data
        IN  \A k \in (1..Len(lm)) \ frame_faults :
                FullSet(lm[k].landmarks) =>
                    \E i \in 1..Len(sc) :
                        /\ sc[i].frame = lm[k].frame
                        /\ "left_arm" \in DOMAIN sc[i].joints
                        /\ sc[i].joints["left_arm"].angle =
                              Num(LeftElbowAngle(lm[k].landmarks))
                        /\ sc[i].joints["left_arm"].score =
                              ArmExtensionTier(LeftElbowAngle(lm[k].landmarks))
                        /\ (PointOf(lm[k].landmarks, 13) = <<4, 6>>
                               => sc[i].joints["left_arm"].score = PERFECT_SCORE)

\* the fixture's frame scored PERFECT beside a bent arm scored GOOD
C22_Witness ==
    /\ ArmExtensionScored
    /\ Len(fs[TestLandmarks].data) = 2 /\ Len(fs[TestScores].data) = 2
    /\ \A k \in 1..2 : FullSet(fs[TestLandmarks].data[k].landmarks)
    /\ fs[TestScores].data[1].joints["left_arm"].score = PERFECT_SCORE
    /\ fs[TestScores].data[2].joints["left_arm"].score = GOOD_SCORE

-----------------------------------------------------------------------------
(* Exercise types outside EXERCISE_CONFIGS.                                *)

UnsupportedRun == pc # "idle" /\ exercise_type \notin DOMAIN EXERCISE_CONFIGS

\* what holds of an unsupported run whatever becomes of its landmarks file: it
\* never gets past scoring, no frame is scored, no scores or summary file appears
UnsupportedScoresNothing ==
    /\ pc \in {"validate", "extract", "score", "cleanup", "failed"}
    /\ scores = <<>>
    /\ ~fs[scores_path].exists
    /\ ~fs[summary_path].exists

-----------------------------------------------------------------------------
(* The reported angle of a joint score.                                    *)

\* C29, as claimed: in every joint score the reported angle, which is the angle
\* rounded to two decimals, and the score agree with the configured ranges: a
\* reported angle in the perfect range goes with PERFECT_SCORE, one in the good
\* range and not in the perfect range with GOOD_SCORE, any other with
\* NEEDS_IMPROVEMENT_SCORE.
C29_ReportedAngleAgreesWithScore ==
    (Len(arg) = 2 /\ ret # <<>>) =>
        LET cfg == EXERCISE_CONFIGS[arg[2]]
            perfect == InClosed(ret[1].angle, cfg.perfect_angle_range)
            good == InClosed(ret[1].angle, cfg.good_angle_range)
        IN  /\ perfect => ret[1].score = PERFECT_SCORE
            /\ (good /\ ~perfect) => ret[1].score = GOOD_SCORE
            /\ (~good /\ ~perfect) => ret[1].score = NEEDS_IMPROVEMENT_SCORE

-----------------------------------------------------------------------------
(* The scores sequence against the landmark frames.                        *)

\* the positions of the landmark frames whose index and timestamp the record carries
SourcesOf(record, lm) ==
    {k \in 1..Len(lm) : /\ lm[k].frame = record.frame
                        /\ lm[k].timestamp_sec = record.timestamp_sec}

\* sc is an order-preserving subsequence of lm: each record has one source, no
\* source is used twice, and the sources come in the order of the records
OrderedSubsequence(sc, lm) ==
    /\ \A i \in 1..Len(sc) : Cardinality(SourcesOf(sc[i], lm)) = 1
    /\ \A i, j \in 1..Len(sc) :
          i < j => \A a \in SourcesOf(sc[i], lm), b \in SourcesOf(sc[j], lm) : a < b

\* C27: the scores sequence score_from_landmarks builds and writes is an
\* order-preserving subsequence of the landmark frames: every record carries the
\* frame index and timestamp of exactly one landmark frame, no landmark frame is
\* scored twice, and the relative order is kept.
C27_ScoresFollowLandmarkFrames ==
    ret # <<>> =>
        /\ OrderedSubsequence(scores, fs[TestLandmarks].data)
        /\ ret = <<NoExc>> =>
              /\ fs[TestScores].data = scores
              /\ Len(scores) = Len(fs[TestLandmarks].data) - Cardinality(frame_faults)

\* two landmark frames scored in order
C27_Witness ==
    /\ ret = <<NoExc>>
    /\ Len(fs[TestLandmarks].data) = 2
    /\ frame_faults = {}
    /\ Len(fs[TestScores].data) = 2
    /\ fs[TestScores].data[1].frame < fs[TestScores].data[2].frame

-----------------------------------------------------------------------------
(* What the later stages do to the earlier artifacts.                      *)

\* C26: the scoring step leaves the landmarks file as extraction wrote it, and the
\* summary step (the aggregation and the saving of the summary) leaves both the
\* landmarks file and the scores file as they were.
C26_StagesKeepEarlierArtifacts ==
    [][/\ pc = "score" => fs'[landmarks_path] = fs[landmarks_path]
       /\ pc \in {"summarize", "save_summary"} =>
             /\ fs'[landmarks_path] = fs[landmarks_path]
             /\ fs'[scores_path] = fs[scores_path]]_vars

\* a completed run whose landmarks and scores files hold what their stages wrote
C26_Witness ==
    /\ pc = "done"
    /\ fs[landmarks_path] = Written(results_data)
    /\ fs[scores_path] = Written(scores)
    /\ fs[summary_path].complete

-----------------------------------------------------------------------------
(* Bounds on the fields of a summary.                                      *)

TierValues == {PERFECT_SCORE, GOOD_SCORE, NEEDS_IMPROVEMENT_SCORE}

\* p <= q for fractions with positive denominators
FracLeq(p, q) == p[1] * q[2] <= q[1] * p[2]

\* C28, as claimed: the summary of every completed run has frames_with_pose <=
\* total_frames and 0 <= detection_rate <= 1, and when the run's scores hold at
\* least one joint score, worst_score <= average_score <= best_score with
\* best_score and worst_score each one of the three tier values.
C28_SummaryWithinBounds ==
    pc = "done" =>
        LET s == result[1].summary
        IN  /\ s.frames_with_pose <= s.total_frames
            /\ FracLeq(Frac(0, 1), s.detection_rate)
            /\ FracLeq(s.detection_rate, Frac(1, 1))
            /\ ScoreEntries(scores) # {} =>
                  /\ FracLeq(Frac(s.worst_score, 1), s.average_score)
                  /\ FracLeq(s.average_score, Frac(s.best_score, 1))
                  /\ s.best_score \in TierValues
                  /\ s.worst_score \in TierValues

-----------------------------------------------------------------------------
(* The summary aggregator called twice over the same files.                *)

\* a second analyzer._generate_analysis_summary(landmarks_path, scores_path, ...)
\* over the files of the first call, which nothing has written to in between;
\* summary holds what the two calls returned, in order, and summary_fault whether
\* a read failed in either
CallGenerateAnalysisSummaryAgain ==
    /\ Len(summary) = 1
    /\ \E rf \in BOOLEAN :
          /\ summary' = Append(summary, generate_analysis_summary(fs[TestLandmarks],
                                                                  fs[TestScores], rf))
          /\ summary_fault' = (\/ summary_fault
                               \/ read_raises(fs[TestLandmarks], rf)
                               \/ read_raises(fs[TestScores], rf))
    /\ UNCHANGED <<pc, video, exercise_type, analysis_id, fs, results_data, scores,
                   result, exc, error, frame_faults, rm_failed, pose_closed, used_ids,
                   other, arg, ret>>
    /\ UNCHANGED <<analysis_results, uploads, http>>

SpecSummaryTwice ==
    InitSummary /\ [][CallGenerateAnalysisSummary \/ CallGenerateAnalysisSummaryAgain]_vars

\* C25, as claimed: running the summary aggregator twice over the same unchanged
\* score and landmark sequences yields summaries that are identical in every
\* field.
C25_SummaryRepeatable ==
    Len(summary) = 2 => summary[1] = summary[2]

-----------------------------------------------------------------------------
(* The HTTP API of api.py: authentication, /health, /, /analyze,           *)
(* /analysis/{analysis_id} and /analyses.  The handlers are coroutines     *)
(* that never await while they work, so requests are handled one at a time. *)

\* lengths of the token that follows the scheme in the Authorization header
TokenLengths == {0, 3, 9, 10}

\* no header, a Basic header, and Bearer headers with tokens of those lengths
Credentials ==
    {NoCredentials, [scheme |-> "Basic", length |-> 10]}
    \cup {[scheme |-> "Bearer", length |-> n] : n \in TokenLengths}

\* HTTPBearer(auto_error=False): <<>> for None, when the header is missing, its
\* scheme is not Bearer or the token is empty; else <<the credentials>>
security(c) == IF c.scheme = "Bearer" /\ c.length > 0 THEN <<c>> ELSE <<>>

\* the status of the HTTPException get_current_user raises, 0 when it returns
get_current_user(c) ==
    LET credentials == security(c)
    IN  IF credentials = <<>> THEN 401
        ELSE IF credentials[1].length < 10 THEN 401
        ELSE 0

\* the answer to a request that is not (or no longer) running a pipeline
Answered(e, c, st) == [NoRequest EXCEPT !.endpoint = e, !.credentials = c, !.status = st]

\* no request is being handled and the analyzer is not running
Quiet == pc = "idle" /\ ~(http.endpoint # "" /\ http.status = 0)

\* GET /health: declared without Depends(get_current_user)
health_check ==
    /\ Quiet
    /\ \E c \in Credentials : http' = Answered("/health", c, 200)
    /\ UNCHANGED <<pc, video, exercise_type, analysis_id, fs, results_data, scores,
                   summary, result, exc, error, frame_faults, summary_fault, rm_failed,
                   pose_closed, used_ids, other, arg, ret, analysis_results, uploads>>

\* GET /: declared without Depends(get_current_user)
root ==
    /\ Quiet
    /\ \E c \in Credentials : http' = Answered("/", c, 200)
    /\ UNCHANGED <<pc, video, exercise_type, analysis_id, fs, results_data, scores,
                   summary, result, exc, error, frame_faults, summary_fault, rm_failed,
                   pose_closed, used_ids, other, arg, ret, analysis_results, uploads>>

\* GET /analysis/{analysis_id}; lf: load_json_file raises on one of the files.
\* Every entry belongs to "demo_user", so the 403 branch is never taken
get_analysis_results ==
    /\ Quiet
    /\ \E c \in Credentials, id \in Ids, lf \in BOOLEAN :
          http' = Answered("/analysis/{analysis_id}", c,
                    IF get_current_user(c) # 0 THEN get_current_user(c)
                    ELSE IF id \notin DOMAIN analysis_results THEN 404
                    ELSE IF \E k \in Kinds : read_raises(fs[ArtifactPath(id, k)], lf)
                    THEN 500
                    ELSE 200)
    /\ UNCHANGED <<pc, video, exercise_type, analysis_id, fs, results_data, scores,
                   summary, result, exc, error, frame_faults, summary_fault, rm_failed,
                   pose_closed, used_ids, other, arg, ret, analysis_results, uploads>>

\* GET /analyses
list_analyses ==
    /\ Quiet
    /\ \E c \in Credentials :
          http' = Answered("/analyses", c,
                    IF get_current_user(c) # 0 THEN get_current_user(c) ELSE 200)
    /\ UNCHANGED <<pc, video, exercise_type, analysis_id, fs, results_data, scores,
                   summary, result, exc, error, frame_faults, summary_fault, rm_failed,
                   pose_closed, used_ids, other, arg, ret, analysis_results, uploads>>

\* how save_uploaded_file can fail: before the destination is created (the upload
\* directory cannot be made, the file cannot be opened) or while it is written
SaveFaults == {"none", "before", "partial"}

\* the uploads that pass validate_video_file: a file that does not open as a
\* video, and FRAME_SKIP frames of which the sampled one shows a full pose or nothing
ApiVideos == ShortVideos \ {MissingVideo}

\* POST /analyze, lines 114-164: authentication, validation of the upload, the
\* upload saved under a fresh name, run_pipeline entered.  valid: what
\* validate_video_file says of the upload; sf: the fault of save_uploaded_file
analyze_video ==
    /\ Quiet
    /\ \E c \in Credentials, valid \in BOOLEAN, sf \in SaveFaults,
          u \in {n \in UploadNames : uploads[n] = "unused"} :
          IF get_current_user(c) # 0 \/ ~valid \/ sf # "none"
          THEN /\ http' = IF get_current_user(c) # 0
                          THEN Answered("/analyze", c, get_current_user(c))
                          ELSE IF ~valid THEN Answered("/analyze", c, 400)
                          ELSE [Answered("/analyze", c, 500) EXCEPT !.upload = u]
               /\ uploads' = IF get_current_user(c) = 0 /\ valid /\ sf = "partial"
                             THEN [uploads EXCEPT ![u] = "partial"]
                             ELSE uploads
               /\ UNCHANGED <<pc, video, exercise_type, analysis_id, fs, results_data,
                              scores, summary, result, exc, error, frame_faults,
                              summary_fault, rm_failed, pose_closed, used_ids, other,
                              arg, ret>>
          ELSE /\ http' = [Answered("/analyze", c, 0) EXCEPT !.upload = u]
               /\ uploads' = [uploads EXCEPT ![u] = "saved"]
               /\ Enter(ApiVideos, {"arm_extension"})
    /\ UNCHANGED analysis_results

\* POST /analyze, lines 165-226, once run_pipeline has returned or raised.
\* rmfail: os.remove of the uploaded video raises; lf: load_json_file raises
analyze_video_respond ==
    /\ http.endpoint = "/analyze" /\ http.status = 0
    /\ pc \in {"done", "failed"}
    /\ \E rmfail \in BOOLEAN, lf \in BOOLEAN :
          IF pc = "failed"
          THEN \* lines 171-179
               /\ uploads' = [uploads EXCEPT ![http.upload] =
                                 IF rmfail THEN @ ELSE "removed"]
               /\ analysis_results' = analysis_results
               /\ http' = [http EXCEPT !.status = 500, !.analysis_id = analysis_id]
          ELSE IF \E p \in Artifacts(analysis_id) : read_raises(fs[p], lf)
          THEN \* lines 182-191
               /\ uploads' = uploads
               /\ analysis_results' = analysis_results
               /\ http' = [http EXCEPT !.status = 500, !.analysis_id = analysis_id]
          ELSE \* lines 193-215
               /\ uploads' = uploads
               /\ analysis_results' =
                     analysis_results @@
                        (analysis_id :> [results |-> result[1], user_id |-> "demo_user"])
               /\ http' = [http EXCEPT !.status = 200, !.analysis_id = analysis_id]
    /\ Leave

NextApi ==
    \/ health_check
    \/ root
    \/ get_analysis_results
    \/ list_analyses
    \/ analyze_video
    \/ Validate
    \/ Extract
    \/ Score
    \/ Summarize
    \/ SaveSummary
    \/ Cleanup
    \/ analyze_video_respond

SpecApi == Init /\ [][NextApi]_vars

\* a request without credentials, or with a bearer token shorter than 10 characters
Unauthenticated(c) == c = NoCredentials \/ (c.scheme = "Bearer" /\ c.length < 10)

\* C24, as claimed: a request without credentials, or with a bearer token shorter
\* than 10 characters, is answered 401 on every endpoint it is sent to, /health,
\* /analyze, /analysis/{analysis_id} and /analyses included, and changes nothing
\* in the stores, the upload directory or the output directory.
C24_UnauthenticatedRejectedEverywhere ==
    [][(http' # http /\ http'.status # 0 /\ Unauthenticated(http'.credentials)) =>
          /\ http'.status = 401
          /\ analysis_results' = analysis_results
          /\ uploads' = uploads
          /\ fs' = fs]_vars

\* C30, as claimed: analysis_results holds an entry for an identifier only if
\* that run's pipeline completed and its three artifacts were loaded; a /analyze
\* request answered with an error has added no entry and has left neither its
\* uploaded video nor an artifact file of its run on disk.
C30_ErrorsLeaveNothingBehind ==
    /\ \A id \in DOMAIN analysis_results :
          /\ analysis_results[id].results.status = "completed"
          /\ analysis_results[id].results.analysis_id = id
          /\ \A p \in Artifacts(id) : fs[p].exists /\ fs[p].complete
    /\ (http.endpoint = "/analyze" /\ http.status >= 400) =>
          /\ http.analysis_id \notin DOMAIN analysis_results
          /\ http.upload # "" => uploads[http.upload] \in {"unused", "removed"}
          /\ http.analysis_id # "" => \A p \in Artifacts(http.analysis_id) : ~fs[p].exists

=============================================================================
